---------------------------- MODULE Spec2Model ----------------------------
(***************************************************************************)
(* WebRtc.DataChannel (src/src/webrtc/datachannel.ts): the wrapper around  *)
(* one freedom core.rtcdatachannel.  The model holds the wrapper's fields, *)
(* the outbound Handler.Queue, the two lifecycle promises, the transport   *)
(* (ready state, send log, buffered bytes) and the asynchronous calls in   *)
(* flight between them (getReadyState, getBufferedAmount, setTimeout).     *)
(*                                                                         *)
(* Scheduling: every transport event, every reply to an asynchronous call  *)
(* and every timer is one JavaScript task, hence one action.  Promise      *)
(* reactions (.then callbacks) are microtasks: they run to completion      *)
(* before the next task, so they are part of the action that settles the   *)
(* promise.                                                                *)
(***************************************************************************)
EXTENDS Integers, Sequences, FiniteSets, TLC

\* ------------------------------------------------------------------------
\* Program constants
CHUNK_SIZE == 1024 * 15
PC_QUEUE_LIMIT == 1024 * 250
\* Math.pow(2, 53), kept as two factors that fit TLC's integers:
\* 2^53 = MAX_MESSAGE_SIZE_HIGH * MAX_MESSAGE_SIZE_LIMB = 2^23 * 2^30.
MAX_MESSAGE_SIZE_LIMB == 1073741824
MAX_MESSAGE_SIZE_HIGH == 8388608

\* ------------------------------------------------------------------------
\* Bounds of the model
MaxSends == 2
\* PayloadSpec: the chunks all its payloads make together; 17 chunks of
\* CHUNK_SIZE bytes are more than PC_QUEUE_LIMIT
MaxChunks == 17

\* send() inputs of Spec: a short string, a string that alone fills the
\* transport's buffer to the congestion threshold (a string is counted one
\* byte per UTF-16 unit, as for ASCII text), and a two-chunk buffer.
StrLens == {3, 245000}
BufLens == {CHUNK_SIZE + 1}
\* send() inputs of PayloadSpec: binary payloads around the chunk boundaries,
\* up to one that a single send() turns into MaxChunks chunks.
PayloadLens == {0, 1, CHUNK_SIZE, CHUNK_SIZE + 1, 40000, MaxChunks * CHUNK_SIZE}

\* FaultSpec: the calls of the transport's send primitive that may throw
MaxFailing == 3
\* send() inputs of FaultSpec: buffers of two and three chunks
FaultLens == {CHUNK_SIZE + 1, 40000}

\* InboundSpec: the 'onmessage' events raised
MaxMessages == 3
\* what an 'onmessage' event carries: text only, a buffer only, both, neither
MessageShapes == {"text", "buffer", "both", "neither"}

\* send() inputs of SizeSpec: lengths around MAX_MESSAGE_SIZE, as
\* high * MAX_MESSAGE_SIZE_LIMB + len.  Strings of 2^52 - 1, 2^52 and 2^52 + 1
\* units (2^53 - 2, 2^53 and 2^53 + 2 bytes), buffers of 2^53 + 2 and
\* 2^53 + 2^30 bytes, and two small payloads.
HalfHigh == MAX_MESSAGE_SIZE_HIGH \div 2
SizedPayloads ==
  { [kind |-> "str", high |-> HalfHigh - 1, len |-> MAX_MESSAGE_SIZE_LIMB - 1],
    [kind |-> "str", high |-> HalfHigh, len |-> 0],
    [kind |-> "str", high |-> HalfHigh, len |-> 1],
    [kind |-> "str", high |-> 0, len |-> 3],
    [kind |-> "buffer", high |-> MAX_MESSAGE_SIZE_HIGH, len |-> 2],
    [kind |-> "buffer", high |-> MAX_MESSAGE_SIZE_HIGH + 1, len |-> 0],
    [kind |-> "buffer", high |-> 0, len |-> CHUNK_SIZE + 1] }

Min(a, b) == IF a < b THEN a ELSE b

VARIABLES
  rs,                    \* the transport's ready state
  readyReply,            \* the getReadyState() call of the constructor
  onopenSub,             \* F of onceOpened is subscribed to 'onopen'
  onceOpened,            \* promise state
  onceClosed,            \* promise state
  opennedSuccessfully_,  \* "undefined", "true" or "false"
  handler,               \* toPeerDataQueue_.isHandling()
  queue,                 \* toPeerDataQueue_: ids of the entries waiting
  chunks,                \* every Data passed to toPeerDataQueue_.handle, in call order
  chunkP,                \* the promise handle() returned for each of them
  payloads,              \* every send() call, in call order
  handed,                \* the transport's send/sendBuffer invocations, in order
  flushed,               \* how many accepted messages the transport has put on the wire
  bufReqs,               \* getBufferedAmount() calls the transport has not answered
  bufReplies,            \* answers on their way to the .then callback (FIFO)
  timers,                \* pending setTimeout(conjestionControlSendHandler, 20)
  openFired,             \* the transport has fired 'onopen'
  closeFired,            \* the transport has fired 'onclose'
  closeCalled,           \* close() has been called
  openedRuns,            \* runs of the onceOpened.then callback
  closedRuns,            \* runs of the onceClosed.then callback
  closedWhileConnecting, \* the closed event found onceOpened still pending
  queueAtClose,          \* the entries waiting in toPeerDataQueue_ when the first closed event came
  congestionStops,       \* the congestion controller has called stopHandling()
  resumedDrain,          \* the congestion controller re-installed the handler on a non-empty queue
  failing,               \* the calls of send/sendBuffer (1st, 2nd, ...) that throw on an open transport
  raised,                \* the 'onmessage' events the transport has raised, in order
  fromPeer               \* every Data passed to dataFromPeerQueue.handle, in call order

lifeVars == <<rs, readyReply, onopenSub, onceOpened, onceClosed, opennedSuccessfully_,
              openFired, closeFired, closeCalled, openedRuns, closedRuns,
              closedWhileConnecting>>
pipeVars == <<handler, queue, chunks, chunkP, payloads, handed, bufReqs>>
pollVars == <<flushed, bufReplies, timers, congestionStops, resumedDrain>>
sideVars == <<failing, raised, fromPeer>>
allSideVars == <<sideVars, queueAtClose>>
vars == <<lifeVars, pipeVars, pollVars, allSideVars>>

\* ------------------------------------------------------------------------
\* ES6 promises: a promise is settled at most once; later calls of its
\* resolve or reject function do nothing.
\* (variant: a promise that can be settled again)
CanSettleAlways(p) == TRUE
CanSettle(p) == p = "pending"

\* Promise.all over the promises `ps` (ids into `cp`).
PromiseAll(cp, ps) ==
  IF \E i \in 1..Len(ps) : cp[ps[i]] = "rejected" THEN "rejected"
  ELSE IF \A i \in 1..Len(ps) : cp[ps[i]] = "resolved" THEN "resolved"
  ELSE "pending"

\* The completion send() returned for payload number p.
SendCompletion(p) ==
  IF payloads[p].sync = "rejected" THEN "rejected"
  ELSE PromiseAll(chunkP, payloads[p].ps)

\* ------------------------------------------------------------------------
\* The part of the state the outbound pipeline reads and writes, as a
\* record; r is the transport's ready state while the pipeline runs.
PipeAt(r) == [rs |-> r, handler |-> handler, queue |-> queue, chunks |-> chunks,
              chunkP |-> chunkP, handed |-> handed, bufReqs |-> bufReqs]
Pipe == PipeAt(rs)

\* rtcDataChannel_.send / sendBuffer throw when the channel is not open
\* ("Can raise NetworkError if channel died"), and for the calls in `failing`.
RtcSendThrows(st) == st.rs # "open" \/ (Len(st.handed) + 1) \in failing

\* conjestionControlSendHandler: issue getBufferedAmount(); the rest of it
\* runs in BufferedAmountReply.
conjestionControlSendHandler(st) == [st EXCEPT !.bufReqs = @ + 1]

\* (variant of handleSendDataToPeer_: the transport call of the entry before
\* is still outstanding when this entry is sent, so this entry overtakes it)
handleSendDataToPeer_Overtake(st, c) ==
  IF st.chunks[c].kind \notin {"str", "buffer"}
  THEN [st EXCEPT !.chunkP[c] = "rejected"]
  ELSE IF RtcSendThrows(st)
  THEN [st EXCEPT !.handed = Append(@, <<c, "threw">>), !.chunkP[c] = "rejected"]
  ELSE conjestionControlSendHandler(
         [st EXCEPT !.handed = IF Len(@) = 0 THEN <<<<c, "ok">>>>
                               ELSE SubSeq(@, 1, Len(@) - 1) \o <<<<c, "ok">>, @[Len(@)]>>,
                    !.chunkP[c] = "resolved"])
\* (variant of handleSendDataToPeer_: a throw of the transport stops the queue)
handleSendDataToPeer_StopOnThrow(st, c) ==
  IF st.chunks[c].kind \notin {"str", "buffer"}
  THEN [st EXCEPT !.chunkP[c] = "rejected"]
  ELSE IF RtcSendThrows(st)
  THEN [st EXCEPT !.handed = Append(@, <<c, "threw">>), !.chunkP[c] = "rejected",
                  !.handler = FALSE]
  ELSE conjestionControlSendHandler(
         [st EXCEPT !.handed = Append(@, <<c, "ok">>), !.chunkP[c] = "resolved"])
\* handleSendDataToPeer_ for entry number c; the promise it returns settles
\* the entry's promise.
handleSendDataToPeer_(st, c) ==
  IF st.chunks[c].kind \notin {"str", "buffer"}
  THEN [st EXCEPT !.chunkP[c] = "rejected"]
  ELSE IF RtcSendThrows(st)
  THEN [st EXCEPT !.handed = Append(@, <<c, "threw">>), !.chunkP[c] = "rejected"]
  ELSE conjestionControlSendHandler(
         [st EXCEPT !.handed = Append(@, <<c, "ok">>), !.chunkP[c] = "resolved"])

\* Handler.Queue.handle: with a handler set the data goes straight to it,
\* otherwise it waits in the queue with a pending promise.
QueueHandle(st, data) ==
  LET c == Len(st.chunks) + 1
      st1 == [st EXCEPT !.chunks = Append(@, data), !.chunkP = Append(@, "pending")]
  IN IF st.handler THEN handleSendDataToPeer_(st1, c)
     ELSE [st1 EXCEPT !.queue = Append(@, c)]

\* Handler.Queue.setHandler: install the handler and hand it every waiting
\* entry, oldest first, before returning.
RECURSIVE ProcessQueue(_)
ProcessQueue(st) ==
  IF st.handler /\ st.queue # <<>>
  THEN ProcessQueue(handleSendDataToPeer_([st EXCEPT !.queue = Tail(@)], Head(st.queue)))
  ELSE st
QueueSetHandler(st) == ProcessQueue([st EXCEPT !.handler = TRUE])

\* Handler.Queue.stopHandling
QueueStopHandling(st) == [st EXCEPT !.handler = FALSE]

\* ArrayBuffers.chunk(buffer, size): consecutive slices [lo, hi) of the buffer.
RECURSIVE ArrayBuffersChunk(_, _, _)
ArrayBuffersChunk(start, len, size) ==
  IF start < len
  THEN <<[lo |-> start, hi |-> Min(start + size, len)]>>
         \o ArrayBuffersChunk(start + size, len, size)
  ELSE <<>>

RECURSIVE HandleEach(_, _, _)
HandleEach(st, p, slices) ==
  IF slices = <<>> THEN st
  ELSE HandleEach(QueueHandle(st, [pid |-> p, kind |-> "buffer", high |-> 0,
                                   lo |-> Head(slices).lo, hi |-> Head(slices).hi]),
                  p, Tail(slices))

Ids(from, n) == [i \in 1..n |-> from + i]

\* (variant of chunkBufferOntoQueue_: chunks of CHUNK_SIZE + 1 bytes)
chunkBufferOntoQueue_Wide(st, p, len) ==
  LET slices == ArrayBuffersChunk(0, len, CHUNK_SIZE + 1)
  IN <<HandleEach(st, p, slices), Ids(Len(st.chunks), Len(slices))>>
\* (variant of chunkBufferOntoQueue_: the promises of handle() are not collected)
chunkBufferOntoQueue_NoWait(st, p, len) ==
  LET slices == ArrayBuffersChunk(0, len, CHUNK_SIZE)
  IN <<HandleEach(st, p, slices), <<>>>>
\* chunkBufferOntoQueue_: <<pipeline after the handle() calls, promises given to Promise.all>>
chunkBufferOntoQueue_(st, p, len) ==
  LET slices == ArrayBuffersChunk(0, len, CHUNK_SIZE)
  IN <<HandleEach(st, p, slices), Ids(Len(st.chunks), Len(slices))>>

\* chunkStringOntoQueue_: a string is one entry, whatever its length
\* (high * MAX_MESSAGE_SIZE_LIMB + len units).
chunkStringOntoQueue_(st, p, high, len) ==
  <<QueueHandle(st, [pid |-> p, kind |-> "str", high |-> high, lo |-> 0, hi |-> len]),
    <<Len(st.chunks) + 1>>>>

\* data.str.length * 2 or data.buffer.byteLength, for a payload of
\* high * MAX_MESSAGE_SIZE_LIMB + len units (len < MAX_MESSAGE_SIZE_LIMB), as
\* <<multiple of MAX_MESSAGE_SIZE_LIMB, rest>>
ByteLength(kind, high, len) ==
  IF kind = "str"
  THEN <<high * 2 + (len * 2) \div MAX_MESSAGE_SIZE_LIMB, (len * 2) % MAX_MESSAGE_SIZE_LIMB>>
  ELSE <<high, len>>

\* (variant of the size test: byteLength >= MAX_MESSAGE_SIZE)
ExceedsOrEqualsMaxMessageSize(byteLength) ==
  \/ byteLength[1] > MAX_MESSAGE_SIZE_HIGH
  \/ byteLength[1] = MAX_MESSAGE_SIZE_HIGH /\ byteLength[2] >= 0
\* byteLength > MAX_MESSAGE_SIZE
ExceedsMaxMessageSize(byteLength) ==
  \/ byteLength[1] > MAX_MESSAGE_SIZE_HIGH
  \/ byteLength[1] = MAX_MESSAGE_SIZE_HIGH /\ byteLength[2] > 0

SetPipe(st) ==
  /\ handler' = st.handler
  /\ queue' = st.queue
  /\ chunks' = st.chunks
  /\ chunkP' = st.chunkP
  /\ handed' = st.handed
  /\ bufReqs' = st.bufReqs

\* ------------------------------------------------------------------------
\* (variant of send: no test of the payload's shape; what is not a buffer is
\* taken for a string)
SendDataUnvalidated(kind, high, len) ==
  /\ Len(payloads) < MaxSends
  /\ LET p == Len(payloads) + 1
         byteLength == ByteLength(kind, high, len)
     IN IF ExceedsMaxMessageSize(byteLength)
        THEN /\ payloads' = Append(payloads, [kind |-> kind, high |-> high, len |-> len,
                                              sync |-> "rejected", ps |-> <<>>])
             /\ UNCHANGED <<handler, queue, chunks, chunkP, handed, bufReqs>>
        ELSE LET r == IF kind # "buffer" THEN chunkStringOntoQueue_(Pipe, p, high, len)
                      ELSE chunkBufferOntoQueue_(Pipe, p, len)
             IN /\ payloads' = Append(payloads, [kind |-> kind, high |-> high, len |-> len,
                                                 sync |-> "none", ps |-> r[2]])
                /\ SetPipe(r[1])
  /\ UNCHANGED <<lifeVars, pollVars, allSideVars>>
\* send(data), data = {str} of high * MAX_MESSAGE_SIZE_LIMB + len UTF-16
\* units, {buffer} of as many bytes, or neither ("none").  A buffer that
\* passes the size test is cut by its `len` bytes: the inputs have high = 0
\* for these.
SendData(kind, high, len) ==
  /\ Len(payloads) < MaxSends
  /\ LET p == Len(payloads) + 1
         byteLength == ByteLength(kind, high, len)
     IN IF kind \notin {"str", "buffer"} \/ ExceedsMaxMessageSize(byteLength)
        THEN /\ payloads' = Append(payloads, [kind |-> kind, high |-> high, len |-> len,
                                              sync |-> "rejected", ps |-> <<>>])
             /\ UNCHANGED <<handler, queue, chunks, chunkP, handed, bufReqs>>
        ELSE LET r == IF kind = "str" THEN chunkStringOntoQueue_(Pipe, p, high, len)
                      ELSE chunkBufferOntoQueue_(Pipe, p, len)
             IN /\ payloads' = Append(payloads, [kind |-> kind, high |-> high, len |-> len,
                                                 sync |-> "none", ps |-> r[2]])
                /\ SetPipe(r[1])
  /\ UNCHANGED <<lifeVars, pollVars, allSideVars>>

send ==
  \/ \E len \in StrLens : SendData("str", 0, len)
  \/ \E len \in BufLens : SendData("buffer", 0, len)
  \/ SendData("none", 0, 0)

sendPayload ==
  \E len \in PayloadLens :
    /\ Len(chunks) + (len + CHUNK_SIZE - 1) \div CHUNK_SIZE <= MaxChunks
    /\ SendData("buffer", 0, len)

\* send() of a string that fills the transport's buffer to the threshold
sendCongesting == SendData("str", 0, 245000)

\* send() on a transport that may throw
sendFault == \E len \in FaultLens : SendData("buffer", 0, len)

\* send() with payloads around MAX_MESSAGE_SIZE
sendSized ==
  \E d \in SizedPayloads :
    /\ d.kind = "buffer" /\ d.high > 0 => ExceedsMaxMessageSize(ByteLength(d.kind, d.high, d.len))
    /\ SendData(d.kind, d.high, d.len)

\* ------------------------------------------------------------------------
\* Lifecycle

\* (variant of ResolveOpened: the handler is installed by F itself, also on
\* a promise that is already settled)
ResolveOpenedDirect(r) ==
  /\ onceOpened' = IF CanSettle(onceOpened) THEN "resolved" ELSE onceOpened
  /\ opennedSuccessfully_' = "true"
  /\ openedRuns' = openedRuns + 1
  /\ SetPipe(QueueSetHandler(PipeAt(r)))
\* F of onceOpened, with the onceOpened.then callback; r is the transport's
\* ready state at that moment.
ResolveOpened(r) ==
  IF CanSettle(onceOpened)
  THEN /\ onceOpened' = "resolved"
       /\ opennedSuccessfully_' = "true"
       /\ openedRuns' = openedRuns + 1
       /\ SetPipe(QueueSetHandler(PipeAt(r)))
  ELSE UNCHANGED <<onceOpened, opennedSuccessfully_, openedRuns,
                   handler, queue, chunks, chunkP, handed, bufReqs>>

\* (variant of ResolveClosed: the callback does not reject onceOpened)
ResolveClosedNoReject ==
  IF CanSettle(onceClosed)
  THEN /\ onceClosed' = "resolved"
       /\ closedRuns' = closedRuns + 1
       /\ closedWhileConnecting' = (closedWhileConnecting \/ onceOpened = "pending")
       /\ onceOpened' = onceOpened
       /\ opennedSuccessfully_' = "false"
  ELSE UNCHANGED <<onceClosed, closedRuns, closedWhileConnecting, onceOpened,
                   opennedSuccessfully_>>
\* F of onceClosed, with the onceClosed.then callback.
ResolveClosed ==
  IF CanSettle(onceClosed)
  THEN /\ onceClosed' = "resolved"
       /\ closedRuns' = closedRuns + 1
       /\ closedWhileConnecting' = (closedWhileConnecting \/ onceOpened = "pending")
       /\ onceOpened' = IF opennedSuccessfully_ # "true" /\ CanSettle(onceOpened)
                        THEN "rejected" ELSE onceOpened
       /\ opennedSuccessfully_' = "false"
  ELSE UNCHANGED <<onceClosed, closedRuns, closedWhileConnecting, onceOpened,
                   opennedSuccessfully_>>

\* The transport answers the constructor's getReadyState().
ReadyStateSample ==
  /\ readyReply = "requested"
  /\ readyReply' = rs
  /\ UNCHANGED <<rs, onopenSub, onceOpened, onceClosed, opennedSuccessfully_,
                 openFired, closeFired, closeCalled, openedRuns, closedRuns,
                 closedWhileConnecting, pipeVars, pollVars, allSideVars>>

\* (variant of ReadyStateReply: the handler is installed when the reply
\* comes, whatever the ready state)
ReadyStateReplyEager ==
  /\ readyReply \in {"connecting", "open", "closing", "closed"}
  /\ readyReply' = "done"
  /\ IF readyReply = "open"
     THEN ResolveOpened(rs) /\ UNCHANGED onopenSub
     ELSE /\ onopenSub' = (onopenSub \/ readyReply = "connecting")
          /\ SetPipe(QueueSetHandler(Pipe))
          /\ UNCHANGED <<onceOpened, opennedSuccessfully_, openedRuns>>
  /\ UNCHANGED <<rs, onceClosed, openFired, closeFired, closeCalled, closedRuns,
                 closedWhileConnecting, payloads, pollVars, allSideVars>>
\* The .then callback of getReadyState().
ReadyStateReply ==
  /\ readyReply \in {"connecting", "open", "closing", "closed"}
  /\ readyReply' = "done"
  /\ IF readyReply = "open"
     THEN ResolveOpened(rs) /\ UNCHANGED onopenSub
     ELSE /\ onopenSub' = (onopenSub \/ readyReply = "connecting")
          /\ UNCHANGED <<onceOpened, opennedSuccessfully_, openedRuns,
                         handler, queue, chunks, chunkP, handed, bufReqs>>
  /\ UNCHANGED <<rs, onceClosed, openFired, closeFired, closeCalled, closedRuns,
                 closedWhileConnecting, payloads, pollVars, allSideVars>>

\* The 'onopen' event reaches the handlers subscribed when it fires.
OnOpenEvent(r) ==
  /\ openFired' = TRUE
  /\ IF onopenSub THEN ResolveOpened(r)
     ELSE UNCHANGED <<onceOpened, opennedSuccessfully_, openedRuns,
                      handler, queue, chunks, chunkP, handed, bufReqs>>
  /\ UNCHANGED <<readyReply, onopenSub, onceClosed, closeFired, closeCalled,
                 closedRuns, closedWhileConnecting, payloads, pollVars, allSideVars>>

TransportOpens ==
  /\ rs = "connecting"
  /\ rs' = "open"
  /\ OnOpenEvent("open")

RepeatOpenEvent ==
  /\ openFired
  /\ UNCHANGED rs
  /\ OnOpenEvent(rs)

OnCloseEvent ==
  /\ closeFired' = TRUE
  /\ queueAtClose' = IF closeFired THEN queueAtClose ELSE queue
  /\ ResolveClosed
  /\ UNCHANGED <<readyReply, onopenSub, openFired, closeCalled, openedRuns,
                 pipeVars, pollVars, sideVars>>

TransportCloses ==
  /\ rs # "closed"
  /\ rs' = "closed"
  /\ OnCloseEvent

RepeatCloseEvent ==
  /\ closeFired
  /\ UNCHANGED rs
  /\ OnCloseEvent

\* (variant of close: close() itself resolves onceClosed)
closeResolving ==
  /\ closeCalled' = TRUE
  /\ rs' = IF rs \in {"connecting", "open"} THEN "closing" ELSE rs
  /\ onceClosed' = "resolved"
  /\ UNCHANGED <<readyReply, onopenSub, onceOpened, opennedSuccessfully_,
                 openFired, closeFired, openedRuns, closedRuns,
                 closedWhileConnecting, pipeVars, pollVars, allSideVars>>
\* close(): rtcDataChannel_.close() starts the closing of the transport; the
\* 'onclose' event follows when the transport has closed.
close ==
  /\ closeCalled' = TRUE
  /\ rs' = IF rs \in {"connecting", "open"} THEN "closing" ELSE rs
  /\ UNCHANGED <<readyReply, onopenSub, onceOpened, onceClosed, opennedSuccessfully_,
                 openFired, closeFired, openedRuns, closedRuns,
                 closedWhileConnecting, pipeVars, pollVars, allSideVars>>

\* ------------------------------------------------------------------------
\* Inbound

\* (variant of onDataFromPeer_: a message is taken for text unless it has a buffer)
onDataFromPeer_Loose(q, message, n) ==
  IF message \in {"buffer", "both"} THEN Append(q, [kind |-> "buffer", msg |-> n])
  ELSE Append(q, [kind |-> "str", msg |-> n])
\* (variant of onDataFromPeer_: the newest Data goes to the head of the queue)
onDataFromPeer_Front(q, message, n) ==
  IF message \in {"text", "both"} THEN <<[kind |-> "str", msg |-> n]>> \o q
  ELSE IF message = "buffer" THEN <<[kind |-> "buffer", msg |-> n]>> \o q
  ELSE q
\* onDataFromPeer_ for the n-th message event: dataFromPeerQueue after it
onDataFromPeer_(q, message, n) ==
  IF message \in {"text", "both"} THEN Append(q, [kind |-> "str", msg |-> n])
  ELSE IF message = "buffer" THEN Append(q, [kind |-> "buffer", msg |-> n])
  ELSE q

\* The transport raises 'onmessage'; the constructor subscribed
\* onDataFromPeer_ to it.
OnMessageEvent ==
  \E message \in MessageShapes :
    /\ Len(raised) < MaxMessages
    /\ raised' = Append(raised, message)
    /\ fromPeer' = onDataFromPeer_(fromPeer, message, Len(raised) + 1)
    /\ UNCHANGED <<lifeVars, pipeVars, pollVars, failing, queueAtClose>>

\* ------------------------------------------------------------------------
\* The transport's send buffer

Size(c) == chunks[c].high * MAX_MESSAGE_SIZE_LIMB + chunks[c].hi - chunks[c].lo

\* the accepted messages, in the order the transport took them
Accepted == SelectSeq(handed, LAMBDA h : h[2] = "ok")

RECURSIVE SumSizes(_, _)
SumSizes(s, i) == IF i > Len(s) THEN 0 ELSE Size(s[i][1]) + SumSizes(s, i + 1)

\* rtcDataChannel_.bufferedAmount: accepted and not yet on the wire; a
\* string counts one byte per UTF-16 unit (ASCII text)
BufferedAmount == SumSizes(Accepted, flushed + 1)

\* The transport puts its oldest buffered message on the wire.
FlushOne ==
  /\ flushed < Len(Accepted)
  /\ flushed' = flushed + 1
  /\ UNCHANGED <<lifeVars, pipeVars, bufReplies, timers, congestionStops, resumedDrain, allSideVars>>

\* The transport puts all it has buffered on the wire.
FlushAll ==
  /\ flushed < Len(Accepted)
  /\ flushed' = Len(Accepted)
  /\ UNCHANGED <<lifeVars, pipeVars, bufReplies, timers, congestionStops, resumedDrain, allSideVars>>

\* The transport answers one getBufferedAmount().
BufferedAmountSample ==
  /\ bufReqs > 0
  /\ bufReqs' = bufReqs - 1
  /\ bufReplies' = Append(bufReplies, BufferedAmount)
  /\ UNCHANGED <<lifeVars, handler, queue, chunks, chunkP, payloads, handed,
                 flushed, timers, congestionStops, resumedDrain, allSideVars>>

\* (variant of BufferedAmountReply: no retry poll is scheduled)
BufferedAmountReplyNoTimer ==
  /\ bufReplies # <<>>
  /\ bufReplies' = Tail(bufReplies)
  /\ IF Head(bufReplies) + CHUNK_SIZE > PC_QUEUE_LIMIT
     THEN /\ SetPipe(IF handler THEN QueueStopHandling(Pipe) ELSE Pipe)
          /\ congestionStops' = (congestionStops \/ handler)
          /\ UNCHANGED <<timers, resumedDrain>>
     ELSE /\ SetPipe(IF ~handler THEN QueueSetHandler(Pipe) ELSE Pipe)
          /\ resumedDrain' = (resumedDrain \/ (~handler /\ queue # <<>>))
          /\ UNCHANGED <<timers, congestionStops>>
  /\ UNCHANGED <<lifeVars, payloads, flushed, allSideVars>>
\* The .then callback of conjestionControlSendHandler.
BufferedAmountReply ==
  /\ bufReplies # <<>>
  /\ bufReplies' = Tail(bufReplies)
  /\ IF Head(bufReplies) + CHUNK_SIZE > PC_QUEUE_LIMIT
     THEN /\ SetPipe(IF handler THEN QueueStopHandling(Pipe) ELSE Pipe)
          /\ congestionStops' = (congestionStops \/ handler)
          /\ timers' = timers + 1
          /\ UNCHANGED resumedDrain
     ELSE /\ SetPipe(IF ~handler THEN QueueSetHandler(Pipe) ELSE Pipe)
          /\ resumedDrain' = (resumedDrain \/ (~handler /\ queue # <<>>))
          /\ UNCHANGED <<timers, congestionStops>>
  /\ UNCHANGED <<lifeVars, payloads, flushed, allSideVars>>

\* setTimeout(this.conjestionControlSendHandler, 20) fires.
PollTimer ==
  /\ timers > 0
  /\ timers' = timers - 1
  /\ SetPipe(conjestionControlSendHandler(Pipe))
  /\ UNCHANGED <<lifeVars, payloads, flushed, bufReplies, congestionStops, resumedDrain, allSideVars>>

\* ------------------------------------------------------------------------
InitChannel ==
  /\ rs \in {"connecting", "open"}
  /\ readyReply = "requested"
  /\ onopenSub = FALSE
  /\ onceOpened = "pending"
  /\ onceClosed = "pending"
  /\ opennedSuccessfully_ = "undefined"
  /\ handler = FALSE
  /\ queue = <<>>
  /\ chunks = <<>>
  /\ chunkP = <<>>
  /\ payloads = <<>>
  /\ handed = <<>>
  /\ flushed = 0
  /\ bufReqs = 0
  /\ bufReplies = <<>>
  /\ timers = 0
  /\ openFired = FALSE
  /\ closeFired = FALSE
  /\ closeCalled = FALSE
  /\ openedRuns = 0
  /\ closedRuns = 0
  /\ closedWhileConnecting = FALSE
  /\ congestionStops = FALSE
  /\ resumedDrain = FALSE
  /\ raised = <<>>
  /\ fromPeer = <<>>
  /\ queueAtClose = <<>>

\* A transport that throws only when it is not open.
Init == InitChannel /\ failing = {}

\* A transport that also throws for some of the first MaxFailing calls.
InitFault == InitChannel /\ failing \in SUBSET (1..MaxFailing)

Next ==
  \/ ReadyStateSample
  \/ ReadyStateReply
  \/ TransportOpens
  \/ RepeatOpenEvent
  \/ TransportCloses
  \/ RepeatCloseEvent
  \/ close
  \/ send
  \/ FlushOne
  \/ FlushAll
  \/ BufferedAmountSample
  \/ BufferedAmountReply
  \/ PollTimer

Spec == Init /\ [][Next]_vars

\* Binary payloads of every shape on a channel that opens and stays open.
NextPayload ==
  \/ ReadyStateSample
  \/ ReadyStateReply
  \/ TransportOpens
  \/ sendPayload
  \/ FlushAll
  \/ BufferedAmountSample
  \/ BufferedAmountReply
  \/ PollTimer

PayloadSpec == Init /\ [][NextPayload]_vars

\* Payloads around MAX_MESSAGE_SIZE given to a channel that opens.  The
\* transport's buffered amount is not asked for here.
NextSize ==
  \/ ReadyStateSample
  \/ ReadyStateReply
  \/ TransportOpens
  \/ sendSized

SizeSpec == Init /\ [][NextSize]_vars

\* A channel that opens on a transport whose send primitive may throw.
NextFault ==
  \/ ReadyStateSample
  \/ ReadyStateReply
  \/ TransportOpens
  \/ sendFault
  \/ FlushAll
  \/ BufferedAmountSample
  \/ BufferedAmountReply

FaultSpec == InitFault /\ [][NextFault]_vars

\* Messages from the peer, on a channel that opens, sends, is congested and
\* closes.
NextInbound ==
  \/ ReadyStateSample
  \/ ReadyStateReply
  \/ TransportOpens
  \/ TransportCloses
  \/ sendCongesting
  \/ FlushAll
  \/ BufferedAmountSample
  \/ BufferedAmountReply
  \/ PollTimer
  \/ OnMessageEvent

InboundSpec == Init /\ [][NextInbound]_vars

\* A channel that is not closed: Next without close() and the closed event.
NextOpen ==
  \/ ReadyStateSample
  \/ ReadyStateReply
  \/ TransportOpens
  \/ send
  \/ FlushOne
  \/ FlushAll
  \/ BufferedAmountSample
  \/ BufferedAmountReply
  \/ PollTimer

\* The event loop runs every task it was given: replies, timers and the
\* transport's own progress are not postponed forever.  The application's
\* calls and the transport's opening are under no obligation.
FairSpec ==
  /\ Init /\ [][NextOpen]_vars
  /\ WF_vars(ReadyStateSample)
  /\ WF_vars(ReadyStateReply)
  /\ WF_vars(FlushOne)
  /\ WF_vars(FlushAll)
  /\ WF_vars(BufferedAmountSample)
  /\ WF_vars(BufferedAmountReply)
  /\ WF_vars(PollTimer)

\* ------------------------------------------------------------------------
\* Properties

IsHanded(c) == \E i \in 1..Len(handed) : handed[i][1] = c
ChunkIdsOf(p) == {c \in 1..Len(chunks) : chunks[c].pid = p}
ChunksOf(p) == SelectSeq(chunks, LAMBDA c : c.pid = p)
CeilDiv(a, b) == (a + b - 1) \div b
AllDelivered ==
  /\ queue = <<>>
  /\ handed = [i \in 1..Len(chunks) |-> <<i, "ok">>]

\* C1: chunks reach the transport's send primitive in the order in which
\* they were given to the outbound queue (entry numbers count the handle()
\* calls), whatever the interleaving of opening, congestion stops, poll
\* timers and resumptions.
C1_OutboundOrder ==
  \A i, j \in 1..Len(handed) : i < j => handed[i][1] < handed[j][1]

\* C1 witness: a queue that congestion control stopped and later resumed with
\* entries waiting has handed over the chunks of two payloads.
C1_Witness ==
  /\ congestionStops /\ resumedDrain
  /\ Len(handed) >= 3
  /\ \E i, j \in 1..Len(handed) : chunks[handed[i][1]].pid # chunks[handed[j][1]].pid

\* C2: the transport never buffers more than PC_QUEUE_LIMIT bytes.
C2_BufferNeverOverrun == BufferedAmount <= PC_QUEUE_LIMIT

\* C3: whenever the transport's buffered amount plus CHUNK_SIZE exceeds
\* PC_QUEUE_LIMIT, the outbound queue has no handler.
C3_SuspendedWhenOverThreshold ==
  (BufferedAmount + CHUNK_SIZE > PC_QUEUE_LIMIT) => ~handler

\* C4: on a channel that is open and stays open, with a transport that keeps
\* flushing, every chunk given to the outbound queue ends up handed to the
\* transport exactly once and in order, also after congestion stopped the queue.
C4_LosslessUnderCongestion ==
  <>[](rs = "open" /\ onceOpened = "resolved") => <>[]AllDelivered

\* C4 witness: the queue was stopped by congestion, resumed with entries
\* waiting, and everything has been delivered on a channel still open.
C4_Witness ==
  /\ congestionStops /\ resumedDrain
  /\ rs = "open"
  /\ Len(chunks) >= 3
  /\ AllDelivered

\* C5: once onceOpened is resolved it stays resolved (never rejected), and
\* its reaction does not run a second time.
C5_OnceOpenedOneShot ==
  [][onceOpened = "resolved" =>
       (onceOpened' = "resolved" /\ openedRuns' = openedRuns /\ openedRuns = 1)]_vars

\* C5 witness: onceOpened is resolved and the closed event has since been
\* processed, the ready-state reply too.
C5_Witness ==
  /\ onceOpened = "resolved"
  /\ onceClosed = "resolved"
  /\ openFired
  /\ readyReply = "done"

\* C6: a closed event that finds the channel never opened leaves onceOpened
\* rejected and onceClosed resolved, for good.
C6_OpenFailure ==
  closedWhileConnecting => (onceOpened = "rejected" /\ onceClosed = "resolved")

\* C6 witness: the closed event came before the ready-state reply, which
\* was processed afterwards.
C6_Witness ==
  /\ closedWhileConnecting
  /\ readyReply = "done"
  /\ openFired

\* C7: with the transport open and the ready-state reply processed (nothing
\* that could still open the channel is outstanding), onceOpened is resolved.
C7_OpenedWhenTransportOpen ==
  (rs = "open" /\ readyReply = "done") => onceOpened = "resolved"

\* C8: onceClosed is resolved exactly when the transport has fired its
\* closed event, its reaction runs at most once, and it is never rejected.
C8_OnceClosed ==
  /\ onceClosed # "rejected"
  /\ (onceClosed = "resolved") <=> closeFired
  /\ closedRuns = (IF closeFired THEN 1 ELSE 0)

\* C8 witness: close() was called on a channel that had opened, and the
\* closed event has been processed.
C8_Witness ==
  /\ closeCalled
  /\ onceOpened = "resolved"
  /\ onceClosed = "resolved"

\* C9: a binary payload of L bytes is given to the outbound queue as
\* ceil(L / CHUNK_SIZE) chunks, each of CHUNK_SIZE bytes but possibly the
\* last, which is shorter and not empty, and together they are the bytes
\* 0..L of the payload in order.
C9_BinaryChunking ==
  \A p \in 1..Len(payloads) :
    payloads[p].kind = "buffer" =>
      LET cs == ChunksOf(p)
          L == payloads[p].len
          n == Len(cs)
      IN /\ n = CeilDiv(L, CHUNK_SIZE)
         /\ \A i \in 1..n :
              /\ cs[i].kind = "buffer"
              /\ cs[i].hi - cs[i].lo <= CHUNK_SIZE
              /\ cs[i].hi - cs[i].lo > 0
              /\ i < n => cs[i].hi - cs[i].lo = CHUNK_SIZE
              /\ cs[i].lo = (IF i = 1 THEN 0 ELSE cs[i - 1].hi)
         /\ n > 0 => cs[n].hi = L

\* C9 witness: a 40000-byte payload became chunks of 15360, 15360 and 9280
\* bytes, and an empty payload became no chunk.
C9_Witness ==
  /\ \E p \in 1..Len(payloads) :
       /\ payloads[p].len = 40000
       /\ LET cs == ChunksOf(p)
          IN /\ Len(cs) = 3
             /\ cs[1].hi - cs[1].lo = 15360
             /\ cs[2].hi - cs[2].lo = 15360
             /\ cs[3].hi - cs[3].lo = 9280
  /\ \E p \in 1..Len(payloads) : payloads[p].len = 0 /\ ChunkIdsOf(p) = {}

\* C10: the completion send() returned for a binary payload is not resolved
\* unless every chunk of the payload has been handed to the transport's send
\* primitive; while a chunk waits in the outbound queue it is not resolved.
C10_CompletionAfterHandoff ==
  \A p \in 1..Len(payloads) :
    (payloads[p].kind = "buffer" /\ SendCompletion(p) = "resolved") =>
      /\ \A c \in ChunkIdsOf(p) : IsHanded(c)
      /\ \A i \in 1..Len(queue) : chunks[queue[i]].pid # p

\* C10 witness: the completion of a two-chunk payload is resolved, both
\* chunks handed over, on a channel whose queue congestion control had
\* stopped and resumed with entries waiting.
C10_Witness ==
  /\ resumedDrain
  /\ \E p \in 1..Len(payloads) :
       /\ payloads[p].kind = "buffer"
       /\ Cardinality(ChunkIdsOf(p)) = 2
       /\ SendCompletion(p) = "resolved"


\* the send() call of this step, if it is one
IsSendStep == Len(payloads') = Len(payloads) + 1
NewPayload == payloads'[Len(payloads')]

\* C11: a send() whose payload has neither a string nor an ArrayBuffer
\* returns a rejected completion, puts nothing on the outbound queue and
\* causes no transport send, in whatever state the channel is.
C11_MalformedInput ==
  /\ [](\A p \in 1..Len(payloads) :
         payloads[p].kind = "none" =>
           (SendCompletion(p) = "rejected" /\ ChunkIdsOf(p) = {}))
  /\ [][(IsSendStep /\ NewPayload.kind = "none") =>
         (queue' = queue /\ chunks' = chunks /\ handed' = handed)]_vars

\* C11 witness: a malformed send() was rejected on a channel that failed to
\* open, while the entries of an earlier payload wait in the queue.
C11_Witness ==
  /\ \E p \in 1..Len(payloads) :
       payloads[p].kind = "none" /\ SendCompletion(p) = "rejected" /\ p > 1
  /\ queue # <<>>
  /\ onceOpened = "rejected"
  /\ onceClosed = "resolved"


\* byte length of payload p is more than 2^53: a string of more than 2^52
\* units, a buffer of more than 2^53 bytes
OverCeiling(p) ==
  LET d == payloads[p]
      top == IF d.kind = "str" THEN 2^22 ELSE 2^23
  IN d.high > top \/ (d.high = top /\ d.len > 0)

\* C12: send() rejects every payload whose byte length (units * 2 for a
\* string, bytes for a buffer) is more than MAX_MESSAGE_SIZE and leaves the
\* outbound queue as it was; a payload of MAX_MESSAGE_SIZE bytes or less is
\* accepted and put on the queue.
C12_SizeCeiling ==
  /\ [](\A p \in 1..Len(payloads) :
         IF OverCeiling(p)
         THEN payloads[p].sync = "rejected" /\ ChunkIdsOf(p) = {}
         ELSE payloads[p].sync # "rejected" /\ ChunkIdsOf(p) # {})
  /\ [][(IsSendStep /\ NewPayload.sync = "rejected") =>
         (queue' = queue /\ chunks' = chunks /\ handed' = handed)]_vars

\* C12 witness: a string of exactly 2^52 units (2^53 bytes) is on the queue
\* and a string of 2^52 + 1 units was rejected.
C12_Witness ==
  /\ \E p \in 1..Len(payloads) :
       /\ payloads[p].kind = "str" /\ payloads[p].high = 2^22 /\ payloads[p].len = 0
       /\ payloads[p].sync = "none"
       /\ \E i \in 1..Len(queue) : chunks[queue[i]].pid = p
  /\ \E p \in 1..Len(payloads) :
       /\ payloads[p].kind = "str" /\ payloads[p].high = 2^22 /\ payloads[p].len = 1
       /\ payloads[p].sync = "rejected"


\* the outcome of the transport call made for chunk c, "none" if none was made
Outcome(c) ==
  IF \E i \in 1..Len(handed) : handed[i] = <<c, "threw">> THEN "threw"
  ELSE IF \E i \in 1..Len(handed) : handed[i] = <<c, "ok">> THEN "ok"
  ELSE "none"

\* C13: when the transport's send primitive throws for a chunk, that chunk's
\* completion and no other is rejected; the chunks after it, those of the
\* same payload included, are still handed to the transport in order; the
\* chunks the transport took stay resolved; the completion send() returned
\* for the payload is rejected.
C13_DeliveryFailure ==
  /\ [](/\ \A c \in 1..Len(chunks) :
            /\ Outcome(c) = "threw" <=> chunkP[c] = "rejected"
            /\ Outcome(c) = "ok" <=> chunkP[c] = "resolved"
        /\ \A i, j \in 1..Len(handed) : i < j => handed[i][1] < handed[j][1]
        /\ \A p \in 1..Len(payloads) :
            /\ (\E c \in ChunkIdsOf(p) : IsHanded(c)) => \A c \in ChunkIdsOf(p) : IsHanded(c)
            /\ (\E c \in ChunkIdsOf(p) : Outcome(c) = "threw") => SendCompletion(p) = "rejected")
  /\ [][\A c \in 1..Len(chunks) : chunkP[c] = "resolved" => chunkP'[c] = "resolved"]_vars

\* C13 witness: on an open channel the transport took the first chunk of a
\* three-chunk payload, threw for the second and took the third; the
\* payload's completion is rejected, and a later payload was delivered.
C13_Witness ==
  /\ rs = "open"
  /\ \E p \in 1..Len(payloads) : \E c \in 1..Len(chunks) :
       /\ ChunkIdsOf(p) = {c, c + 1, c + 2}
       /\ Outcome(c) = "ok" /\ Outcome(c + 1) = "threw" /\ Outcome(c + 2) = "ok"
       /\ chunkP[c] = "resolved" /\ chunkP[c + 1] = "rejected" /\ chunkP[c + 2] = "resolved"
       /\ SendCompletion(p) = "rejected"
       /\ \E q \in 1..Len(payloads) : q > p /\ SendCompletion(q) = "resolved"


\* the message events that carry a string text or an ArrayBuffer buffer
Recognized == {i \in 1..Len(raised) : raised[i] # "neither"}

\* C14: every recognized transport message is passed to dataFromPeerQueue
\* exactly once, as text or as a buffer according to what it carries, and in
\* the order of the message events, whatever the channel's lifecycle and
\* congestion state.
C14_InboundOrder ==
  /\ \A i \in Recognized :
       /\ Cardinality({k \in 1..Len(fromPeer) : fromPeer[k].msg = i}) = 1
       /\ \A k \in 1..Len(fromPeer) :
            fromPeer[k].msg = i =>
              fromPeer[k].kind = (IF raised[i] = "buffer" THEN "buffer" ELSE "str")
  /\ \A k, l \in 1..Len(fromPeer) : k < l => fromPeer[k].msg < fromPeer[l].msg

\* C14 witness: a text, a binary and a second text message arrived, in this
\* order, on a channel that had been stopped by congestion and has closed.
C14_Witness ==
  /\ raised = <<"text", "buffer", "text">>
  /\ fromPeer = <<[kind |-> "str", msg |-> 1], [kind |-> "buffer", msg |-> 2],
                  [kind |-> "str", msg |-> 3]>>
  /\ congestionStops
  /\ closeFired

\* the message event of this step, if it is one
IsMessageStep == Len(raised') = Len(raised) + 1

\* C20: a transport message with neither a string text nor an ArrayBuffer
\* buffer is dropped: nothing is passed to dataFromPeerQueue for it, the
\* handler returns leaving the channel as it was, and the messages before and
\* after it are delivered in order.
C20_MalformedInbound ==
  /\ [](/\ \A k \in 1..Len(fromPeer) : raised[fromPeer[k].msg] # "neither"
        /\ Len(fromPeer) = Cardinality(Recognized))
  /\ [][IsMessageStep =>
         /\ UNCHANGED <<lifeVars, pipeVars, pollVars>>
         /\ IF raised'[Len(raised')] = "neither"
            THEN fromPeer' = fromPeer
            ELSE /\ Len(fromPeer') = Len(fromPeer) + 1
                 /\ SubSeq(fromPeer', 1, Len(fromPeer)) = fromPeer
                 /\ fromPeer'[Len(fromPeer')].msg = Len(raised')]_vars

\* C20 witness: a malformed message came between a text and a binary
\* message; only these two are in dataFromPeerQueue, in their order.
C20_Witness ==
  /\ raised = <<"text", "neither", "buffer">>
  /\ fromPeer = <<[kind |-> "str", msg |-> 1], [kind |-> "buffer", msg |-> 3]>>


\* C15: once the transport's closed event has been processed, no handler is
\* installed on the outbound queue any more and the transport's send
\* primitive is not called any more, also when a poll timer or a
\* buffered-amount query was outstanding at that moment.
C15_NoConsumptionAfterClose ==
  [][closeFired => (handed' = handed /\ (handler' => handler))]_vars

\* C16: the outbound queue starts without a handler; as long as onceOpened
\* is not resolved no chunk has been handed to the transport, and the chunks
\* given to send() wait in the queue, in order, with pending completions.
C16_NoSendBeforeOpen ==
  onceOpened # "resolved" =>
    /\ ~handler
    /\ handed = <<>>
    /\ queue = [i \in 1..Len(chunks) |-> i]
    /\ \A c \in 1..Len(chunks) : chunkP[c] = "pending"

\* C16 witness: the transport is open but onceOpened is still pending (the
\* ready-state reply has not been processed); the chunks of two payloads wait.
C16_Witness ==
  /\ onceOpened = "pending"
  /\ rs = "open"
  /\ Len(queue) >= 3
  /\ Len(payloads) = 2

\* C17: every chunk that waits in the outbound queue when the channel reaches
\* Closed or FailedToOpen keeps its completion pending for ever.
C17_AbandonedChunksPending ==
  \A i \in 1..Len(queueAtClose) : chunkP[queueAtClose[i]] = "pending"

\* C18: at most one congestion poll is outstanding, counting the
\* buffered-amount queries not yet answered or not yet processed and the
\* pending retry timers.
C18_SinglePollLoop == bufReqs + Len(bufReplies) + timers <= 1

\* C19: once onceOpened is rejected it stays rejected, the outbound queue has
\* no handler and no chunk is handed to the transport, whatever open event or
\* ready-state reply comes later; once the closed event has been processed
\* the channel is not open again.
C19_TerminalAbsorbing ==
  /\ [](onceOpened = "rejected" =>
          (~handler /\ handed = <<>> /\ opennedSuccessfully_ = "false"))
  /\ [][onceOpened = "rejected" => onceOpened' = "rejected"]_vars
  /\ [][closeFired =>
          (onceClosed' = "resolved" /\ opennedSuccessfully_' = "false")]_vars

\* C19 witness: on a channel that failed to open, with chunks waiting, the
\* open event has been raised and the ready-state reply processed.
C19_Witness ==
  /\ onceOpened = "rejected"
  /\ openFired
  /\ onopenSub
  /\ readyReply = "done"
  /\ queue # <<>>

=============================================================================
